---- MODULE Spec2Model ----
(***************************************************************************)
(* soft404/train.py: the grouped, streaming, cross-validated training      *)
(* driver.  The module models                                              *)
(*   - the pure helpers (file_reader, get_lang_indices, to_data_idx,       *)
(*     data_iter, train_clf, eval_clf) as operators,                       *)
(*   - main() as a state machine, one action per statement group, the      *)
(*     result loop of lines 203-205 one iteration per action,              *)
(*   - unit-level calls of the helpers on small inputs (SpecFn).           *)
(* soft404.utils (pickle_stream_reader, batches) is not among the source   *)
(* files and is modelled from the specification's description of it; the   *)
(* library calls (LabelKFold, CountVectorizer, SGDClassifier, metrics) are *)
(* modelled by the part of their behaviour the driver depends on.          *)
(* Python indices are 0-based and kept so: the item read at position idx   *)
(* is filename[idx + 1].                                                   *)
(***************************************************************************)
EXTENDS Integers, Sequences, FiniteSets, Bags, TLC

VARIABLES
    dataset,      \* the items of the file args.filename, in read order
    lang,         \* args.lang ("" = no language filter)
    limit,        \* args.limit (None or Some(n))
    no_mp,        \* args.no_mp
    pc,           \* position of main()
    flt_indices,  \* main: flt_indices (None or Some(set of idx))
    urls,         \* main: urls, None until line 182 ran
    vect,         \* the item idx the vectorizer was fitted on, None before
    lkf,          \* the folds of LabelKFold, None before line 194 ran
    done_folds,   \* fold indices whose result the loop of line 203 consumed
    evals,        \* what eval_clf did for each consumed fold
    all_metrics,  \* main: all_metrics, metric name -> collected values
    report,       \* what lines 206-207 printed, None before
    phases,       \* history: the phases completed so far, in order
    error,        \* "" or the phase in which an exception ended the run
    call          \* a unit-level call of one helper and its result

vars == <<dataset, lang, limit, no_mp, pc, flt_indices, urls, vect, lkf,
          done_folds, evals, all_metrics, report, phases, error, call>>

runvars == <<dataset, lang, limit, no_mp, pc, flt_indices, urls, vect, lkf,
             done_folds, evals, all_metrics, report, phases, error>>

-----------------------------------------------------------------------------
(* Python values *)

None == <<>>
Some(x) == <<x>>
Ok(x) == <<"ok", x>>
Raise(e) == <<"raise", e>>
IsOk(r) == r[1] = "ok"

Range(s) == {s[i] : i \in 1..Len(s)}

\* a Python list: the sequence with the values of f, computed once
List(f) == <<>> \o f

RECURSIVE SetToSortedSeq(_)
SetToSortedSeq(S) ==
    IF S = {} THEN <<>>
    ELSE LET m == CHOOSE x \in S : \A y \in S : x <= y
         IN <<m>> \o SetToSortedSeq(S \ {m})

-----------------------------------------------------------------------------
(* Bounds of the model *)

\* number of items a run's dataset has in front of the base items
MaxExtra == 1
\* the value of --limit the runs with a limit use
LimitCut == 13
\* number of outcomes of np.random.shuffle a call draws from
MaxSeed == 2
\* unit-level calls: longest dataset, urls list and index list
MaxLen == 3
\* unit-level calls of train_clf: largest batch size and epoch count
MaxBatch == 3
MaxEpochs == 2

(* Program constants *)
n_folds == 10
default_n_epochs == 2
default_batch_size == 5000

OkStatus == {200, 404}

-----------------------------------------------------------------------------
(* soft404.utils, modelled from the specification *)

\* pickle_stream_reader(f, indices): (idx, item) pairs in read order, idx the
\* 0-based read position counted before any filtering, restricted to the
\* members of indices when an index collection is given.
pickle_stream_reader(f, indices) ==
    SelectSeq(List([i \in 1..Len(f) |-> <<i - 1, f[i]>>]),
              LAMBDA p : indices = None \/ p[1] \in indices[1])

\* batches(lst, size): consecutive chunks of size elements, the last one
\* partial, none empty.
batches(lst, size) ==
    List([b \in 1..((Len(lst) + size - 1) \div size) |->
            SubSeq(lst, (b - 1) * size + 1,
                   IF b * size < Len(lst) THEN b * size ELSE Len(lst))])

-----------------------------------------------------------------------------
(* train.py, lines 20-27 *)

WithIdx(item, idx) ==
    [idx |-> idx, url |-> item.url, status |-> item.status, lang |-> item.lang]

\* faulty variant: the loop stops only past the limit (idx > limit)
file_reader_break_gt(lim, idx) == lim # None /\ idx > lim[1]

\* line 23: the loop stops at the first idx >= limit
file_reader_break(lim, idx) == lim # None /\ idx >= lim[1]

\* lines 20-27: the loop runs over the stream up to the first entry that
\* breaks it, and yields the entries of status 200 or 404 with idx set
file_reader(filename, indices, lim) ==
    LET stream == pickle_stream_reader(filename, indices)
        stop == {k \in 1..Len(stream) : file_reader_break(lim, stream[k][1])}
        last == IF stop = {} THEN Len(stream)
                ELSE (CHOOSE k \in stop : \A j \in stop : k <= j) - 1
        yielded == SelectSeq(SubSeq(stream, 1, last),
                             LAMBDA p : p[2].status \in OkStatus)
    IN List([i \in 1..Len(yielded) |-> WithIdx(yielded[i][2], yielded[i][1])])

\* line 30: the registered domain of a url; a url is <<subdomain, domain>>
get_domain(url) == url[2]

\* faulty variant: the language test of line 53 is left out
get_lang_indices_all(filename, lim, only_lang) ==
    {it.idx : it \in Range(file_reader(filename, None, lim))}

\* lines 49-53
get_lang_indices(filename, lim, only_lang) ==
    {it.idx : it \in {x \in Range(file_reader(filename, None, lim)) :
                        x.lang = only_lang}}

\* lines 56-64: xs stands for the featurized texts, one per item, named by idx
get_xy(items) ==
    [xs |-> List([i \in 1..Len(items) |-> items[i].idx]),
     ys |-> List([i \in 1..Len(items) |-> items[i].status = 404])]

-----------------------------------------------------------------------------
(* train.py, lines 127-139 *)

\* faulty variant: returns the positions in urls instead of the data idx
to_data_idx_positions(indices, us) ==
    Ok(SelectSeq(List([i \in 1..Len(us) |-> i - 1]),
                 LAMBDA p : p \in Range(indices)))

\* faulty variant: line 131 (the assertion) is left out
to_data_idx_no_assert(indices, us) ==
    LET ids == Range(indices)
        keep == SelectSeq(List([i \in 1..Len(us) |-> i - 1]),
                          LAMBDA p : p \in ids)
    IN Ok(List([i \in 1..Len(keep) |-> us[keep[i] + 1][1]]))

\* lines 127-132; indices is a list, us the list of (data_idx, url) pairs
to_data_idx(indices, us) ==
    LET ids == Range(indices)
        keep == SelectSeq(List([i \in 1..Len(us) |-> i - 1]),
                          LAMBDA p : p \in ids)
        result == List([i \in 1..Len(keep) |-> us[keep[i] + 1][1]])
    IN IF Len(result) = Cardinality(ids) THEN Ok(result)
       ELSE Raise("AssertionError")

\* lines 135-139 with reader = partial(file_reader, filename, limit=lim);
\* indices is None or Some(list); membership in a list is membership in the
\* set of its elements
data_iter(filename, lim, flt, indices) ==
    file_reader(filename,
                IF flt # None
                THEN (IF indices = None THEN flt
                      ELSE Some(Range(indices[1]) \cap flt[1]))
                ELSE (IF indices = None THEN None
                      ELSE Some(Range(indices[1]))),
                lim)

-----------------------------------------------------------------------------
(* np.random.shuffle: the outcome is a permutation drawn by the process's   *)
(* random state.  seed numbers the outcome: its mixed-radix digits pick the *)
(* next element among those left, so seeds 0..n!-1 give every permutation   *)
(* of an n-element list once.                                               *)

RECURSIVE shuffle(_, _)
shuffle(lst, seed) ==
    IF lst = <<>> \/ seed = 0 THEN lst
    ELSE LET n == Len(lst)
             j == (seed % n) + 1
         IN <<lst[j]>>
            \o shuffle(SubSeq(lst, 1, j - 1) \o SubSeq(lst, j + 1, n),
                       seed \div n)

\* faulty variant: a single pass whatever n_epochs is
epochs_one(n_epochs) == 1

\* line 84: range(n_epochs)
epochs(n_epochs) == n_epochs

(* lines 83-88: the partial_fit calls train_clf makes, each named by the    *)
(* (xs, ys) it is given; train_idx is shuffled in place, so each epoch      *)
(* shuffles the order the one before left.                                  *)
RECURSIVE train_epochs(_, _, _, _, _, _, _)
train_epochs(filename, lim, flt, order, left, batch_size, seed) ==
    IF left = 0 THEN <<>>
    ELSE LET sh == shuffle(order, seed)
             bs == batches(sh, batch_size)
         IN List([b \in 1..Len(bs) |->
                    get_xy(data_iter(filename, lim, flt, Some(bs[b])))])
            \o train_epochs(filename, lim, flt, sh, left - 1, batch_size, seed)

train_clf(filename, lim, flt, train_idx, n_epochs, batch_size, seed) ==
    train_epochs(filename, lim, flt, train_idx, epochs(n_epochs),
                 batch_size, seed)

(* lines 142-161.  arg = <<fold_idx, <<_train_idx, _test_idx>>>>.  The       *)
(* scores are opaque values of the metrics library: the value of a metric   *)
(* on fold fold_idx is named by fold_idx.  Fold 0 also runs                 *)
(* check_class_weights, which shuffles train_idx before training, and       *)
(* check_domains, which only prints.                                        *)
eval_clf(arg, filename, lim, flt, us, seed) ==
    LET fold_idx == arg[1]
        tr == to_data_idx(arg[2][1], us)
        te == to_data_idx(arg[2][2], us)
    IN IF ~IsOk(tr) THEN tr
       ELSE IF ~IsOk(te) THEN te
       ELSE LET train_idx == tr[2]
                test_idx == te[2]
                order == IF fold_idx = 0 THEN shuffle(train_idx, seed)
                         ELSE train_idx
            IN Ok([fold |-> fold_idx,
                   train_idx |-> train_idx,
                   test_idx |-> test_idx,
                   test |-> get_xy(data_iter(filename, lim, flt,
                                             Some(test_idx))),
                   fits |-> train_clf(filename, lim, flt, order,
                                      default_n_epochs, default_batch_size,
                                      seed),
                   metrics |-> [m \in {"F1", "AUC"} |-> fold_idx]])

-----------------------------------------------------------------------------
(* sklearn.cross_validation.LabelKFold(labels, n_folds), the Grouped Fold   *)
(* Splitter: labels are numbered in sorted order, the labels are taken by   *)
(* decreasing number of samples and each is given whole to the fold that is *)
(* lightest so far (the first of them); fold f tests the samples of its     *)
(* labels and trains on the rest.  More folds than labels is a ValueError.  *)

bincount(labels, u) ==
    [k \in 1..Len(u) |-> Cardinality({p \in 1..Len(labels) : labels[p] = u[k]})]

\* np.argsort(counts)[::-1]
RECURSIVE argsort_rev(_, _)
argsort_rev(counts, left) ==
    IF left = {} THEN <<>>
    ELSE LET k == CHOOSE k \in left : \A j \in left :
                      \/ counts[j] < counts[k]
                      \/ (counts[j] = counts[k] /\ j <= k)
         IN <<k>> \o argsort_rev(counts, left \ {k})

RECURSIVE distribute(_, _, _, _)
distribute(order, counts, per_fold, label_to_fold) ==
    IF order = <<>> THEN label_to_fold
    ELSE LET k == Head(order)
             lightest == CHOOSE f \in DOMAIN per_fold :
                 \A g \in DOMAIN per_fold :
                     \/ per_fold[g] > per_fold[f]
                     \/ (per_fold[g] = per_fold[f] /\ g >= f)
         IN distribute(Tail(order), counts,
                       [per_fold EXCEPT ![lightest] = @ + counts[k]],
                       [label_to_fold EXCEPT ![k] = lightest])

LabelKFold(labels, n) ==
    LET u == SetToSortedSeq(Range(labels))
        counts == bincount(labels, u)
        l2f == distribute(argsort_rev(counts, 1..Len(u)), counts,
                          [f \in 0..(n - 1) |-> 0], [k \in 1..Len(u) |-> 0])
        fold_of(p) == l2f[CHOOSE k \in 1..Len(u) : u[k] = labels[p + 1]]
        samples == List([i \in 1..Len(labels) |-> i - 1])
    IN IF n > Len(labels) \/ n > Len(u) THEN Raise("ValueError")
       ELSE Ok(List([f \in 1..n |->
                  <<SelectSeq(samples, LAMBDA p : fold_of(p) # f - 1),
                    SelectSeq(samples, LAMBDA p : fold_of(p) = f - 1)>>]))

-----------------------------------------------------------------------------
(* The datasets of the runs.  A run needs at least n_folds registered       *)
(* domains among its retained items to get past line 194, so a dataset is   *)
(* the thirteen base items (ten domains; an item of another status, an item *)
(* of another language, and a domain met under two urls) behind up to       *)
(* MaxExtra further items (a second url of a base domain, a new domain, an  *)
(* item of another language); the end-to-end scenario's dataset is one more.*)

Item(sub, dom, status, lng) ==
    [url |-> <<sub, dom>>, status |-> status, lang |-> lng]

Base ==
    << Item("", 1, 200, "en"),     Item("", 2, 404, "en"),
       Item("", 3, 500, "en"),     Item("", 3, 200, "en"),
       Item("www", 3, 404, "en"),  Item("", 4, 404, "de"),
       Item("", 4, 200, "en"),     Item("", 5, 404, "en"),
       Item("", 6, 200, "en"),     Item("", 7, 404, "en"),
       Item("", 8, 200, "en"),     Item("", 9, 404, "en"),
       Item("", 10, 200, "en") >>

Extras ==
    { Item("www", 1, 404, "en"), Item("", 11, 200, "en"),
      Item("", 2, 200, "de") }

\* 40 items, 20 of status 200 and 20 of status 404, over 8 domains, each
\* domain of one status
Scenario40 ==
    List([i \in 1..40 |->
            Item("", ((i - 1) % 8) + 1,
                 IF ((i - 1) % 8) + 1 <= 4 THEN 200 ELSE 404, "en")])

Datasets ==
    {e \o Base : e \in UNION {[1..n -> Extras] : n \in 0..MaxExtra}}
    \cup {Scenario40}

Langs == {"en", "", "fr"}

Limits == {None, Some(LimitCut)}

NoCall == [fn |-> "none"]

-----------------------------------------------------------------------------
(* main(), lines 164-207 *)

\* faulty variant: the folds are split before the vectorizer is fitted
main_order_fit_last == <<"start", "urls", "split", "fit", "eval", "done">>

\* the order of the statement groups of main()
main_order == <<"start", "urls", "fit", "split", "eval", "done">>

after(p) == main_order[(CHOOSE i \in 1..Len(main_order) : main_order[i] = p) + 1]

\* faulty variant: the exception is swallowed and the loop goes on
after_fold_error_swallowed == "eval"

\* lines 199-207: an exception raised in the loop of line 203 leaves the
\* with block and main(); lines 206-207 are not run
after_fold_error == "failed"

\* faulty variant: all_metrics[k] = [v]
append_metric_overwrite(values, v) == SetToBag({v})

\* line 205: all_metrics[k].append(v); the list is read by np.mean and
\* np.std only, so it is kept as the bag of its values
append_metric(values, v) == values (+) SetToBag({v})

\* line 205 over the items of one eval_metrics mapping
collect(am, eval_metrics) ==
    [k \in DOMAIN am \cup DOMAIN eval_metrics |->
        IF k \in DOMAIN eval_metrics
        THEN append_metric(IF k \in DOMAIN am THEN am[k] ELSE EmptyBag,
                           eval_metrics[k])
        ELSE am[k]]

\* faulty variant: the last entry of urls gets no label
fold_labels_short(us) ==
    List([i \in 1..(Len(us) - 1) |-> get_domain(us[i][2])])

\* line 194: [get_domain(url) for _, url in urls]
fold_labels(us) == List([i \in 1..Len(us) |-> get_domain(us[i][2])])

Folds == 0..(Len(lkf[1]) - 1)

pending == Folds \ done_folds

\* map (--no-mp) yields the folds' results in submission order,
\* pool.imap_unordered in the order the workers finish
ready ==
    IF no_mp THEN {i \in pending : \A j \in pending : i <= j} ELSE pending

Init ==
    /\ dataset \in Datasets
    /\ lang \in Langs
    /\ limit \in Limits
    /\ no_mp \in BOOLEAN
    /\ pc = "start"
    /\ flt_indices = None
    /\ urls = None
    /\ vect = None
    /\ lkf = None
    /\ done_folds = {}
    /\ evals = [i \in {} |-> None]
    /\ all_metrics = [k \in {} |-> EmptyBag]
    /\ report = None
    /\ phases = <<>>
    /\ error = ""
    /\ call = NoCall

\* lines 174-181
LanguageFilter ==
    /\ pc = "start"
    /\ flt_indices' = IF lang # ""
                      THEN Some(get_lang_indices(dataset, limit, lang))
                      ELSE None
    /\ phases' = IF lang # "" THEN Append(phases, "language_filter")
                 ELSE phases
    /\ pc' = after("start")
    /\ UNCHANGED <<dataset, lang, limit, no_mp, urls, vect, lkf, done_folds,
                   evals, all_metrics, report, error, call>>

\* line 182
CollectUrls ==
    /\ pc = "urls"
    /\ urls' = Some(LET items == data_iter(dataset, limit, flt_indices, None)
                    IN List([i \in 1..Len(items) |->
                                <<items[i].idx, items[i].url>>]))
    /\ phases' = Append(phases, "identity_list")
    /\ pc' = after("urls")
    /\ UNCHANGED <<dataset, lang, limit, no_mp, flt_indices, vect, lkf,
                   done_folds, evals, all_metrics, report, error, call>>

\* lines 184-191: CountVectorizer.fit over data(); every item's text has a
\* token, so the fit fails (empty vocabulary) only when there is no item
VectFit ==
    /\ pc = "fit"
    /\ LET items == data_iter(dataset, limit, flt_indices, None)
       IN /\ items # <<>>
          /\ vect' = Some(List([i \in 1..Len(items) |-> items[i].idx]))
    /\ phases' = Append(phases, "vocab_fit")
    /\ pc' = after("fit")
    /\ UNCHANGED <<dataset, lang, limit, no_mp, flt_indices, urls, lkf,
                   done_folds, evals, all_metrics, report, error, call>>

VectFitFail ==
    /\ pc = "fit"
    /\ data_iter(dataset, limit, flt_indices, None) = <<>>
    /\ error' = "vocabulary fit"
    /\ pc' = "failed"
    /\ UNCHANGED <<dataset, lang, limit, no_mp, flt_indices, urls, vect, lkf,
                   done_folds, evals, all_metrics, report, phases, call>>

\* lines 193-200
Split ==
    /\ pc = "split"
    /\ LET r == LabelKFold(fold_labels(urls[1]), n_folds)
       IN /\ IsOk(r)
          /\ lkf' = Some(r[2])
    /\ phases' = Append(phases, "fold_split")
    /\ pc' = after("split")
    /\ UNCHANGED <<dataset, lang, limit, no_mp, flt_indices, urls, vect,
                   done_folds, evals, all_metrics, report, error, call>>

SplitFail ==
    /\ pc = "split"
    /\ ~IsOk(LabelKFold(fold_labels(urls[1]), n_folds))
    /\ error' = "fold split"
    /\ pc' = "failed"
    /\ UNCHANGED <<dataset, lang, limit, no_mp, flt_indices, urls, vect, lkf,
                   done_folds, evals, all_metrics, report, phases, call>>

\* lines 203-205, one iteration: the result of fold i arrives and is collected
EvalFold(i) ==
    /\ pc = "eval"
    /\ i \in ready
    /\ \E seed \in 0..(MaxSeed - 1) :
          \E r \in {eval_clf(<<i, lkf[1][i + 1]>>, dataset, limit,
                             flt_indices, urls[1], seed)} :
             /\ IsOk(r)
             /\ evals' = (i :> r[2]) @@ evals
             /\ all_metrics' = collect(all_metrics, r[2].metrics)
    /\ done_folds' = done_folds \cup {i}
    /\ UNCHANGED <<dataset, lang, limit, no_mp, pc, flt_indices, urls, vect,
                   lkf, report, phases, error, call>>

\* line 203, the result of fold i is an exception: the assertion of
\* to_data_idx (lines 144-145), or an error of the classifier or metrics
\* library; no value is appended
EvalFoldFail(i) ==
    /\ pc = "eval"
    /\ i \in ready
    /\ \E lib_error \in BOOLEAN :
          \/ lib_error
          \/ ~IsOk(to_data_idx(lkf[1][i + 1][1], urls[1]))
          \/ ~IsOk(to_data_idx(lkf[1][i + 1][2], urls[1]))
    /\ error' = "fold evaluation"
    /\ pc' = after_fold_error
    /\ UNCHANGED <<dataset, lang, limit, no_mp, flt_indices, urls, vect, lkf,
                   done_folds, evals, all_metrics, report, phases, call>>

\* lines 206-207, reached when the iterator of line 203 is exhausted
Report ==
    /\ pc = "eval"
    /\ pending = {}
    /\ report' = Some(all_metrics)
    /\ phases' = Append(phases, "report")
    /\ pc' = after("eval")
    /\ UNCHANGED <<dataset, lang, limit, no_mp, flt_indices, urls, vect, lkf,
                   done_folds, evals, all_metrics, error, call>>

Next ==
    \/ LanguageFilter
    \/ CollectUrls
    \/ VectFit
    \/ VectFitFail
    \/ Split
    \/ SplitFail
    \/ \E i \in 0..(n_folds - 1) : EvalFold(i)
    \/ \E i \in 0..(n_folds - 1) : EvalFoldFail(i)
    \/ Report

Spec == Init /\ [][Next]_vars

-----------------------------------------------------------------------------
(* Unit-level calls: one helper applied to arguments drawn from small sets. *)

FnStatusItems == {Item("", 1, st, "en") : st \in {200, 404, 500}}

FnLangItems ==
    { Item("", 1, 200, "en"), Item("", 1, 404, "de"),
      Item("", 1, 500, "en"), Item("", 1, 200, "de") }

SeqsUpTo(S, n) == UNION {[1..k -> S] : k \in 0..n}

FnIndexSets == {None} \cup {Some(S) : S \in SUBSET (0..MaxLen)}

FnLimits == {None} \cup {Some(n) : n \in 0..MaxLen}

\* the lists of (data_idx, url) pairs main() builds: data_idx increasing
FnUrls ==
    {LET ids == SetToSortedSeq(S)
     IN List([i \in 1..Len(ids) |-> <<ids[i], <<"", ids[i] + 1>>>>]) :
        S \in SUBSET (0..MaxLen)}

FnTrainData == List([i \in 1..MaxLen |-> Item("", i, 200, "en")])

RECURSIVE fact(_)
fact(n) == IF n <= 1 THEN 1 ELSE n * fact(n - 1)

FnCalls ==
    {[fn |-> "file_reader", filename |-> f, index_set |-> ix, lim |-> l,
      result |-> None] :
        f \in SeqsUpTo(FnStatusItems, MaxLen), ix \in FnIndexSets,
        l \in FnLimits}
    \cup
    {[fn |-> "data", filename |-> f, only_lang |-> ol, index_list |-> ix,
      result |-> None] :
        f \in SeqsUpTo(FnLangItems, MaxLen), ol \in {"en", ""},
        ix \in {None} \cup {Some(SetToSortedSeq(S)) : S \in SUBSET (0..(MaxLen - 1))}}
    \cup
    {[fn |-> "to_data_idx", indices |-> ix, urls |-> us, result |-> None] :
        ix \in SeqsUpTo(0..MaxLen, MaxLen), us \in FnUrls}
    \cup
    {[fn |-> "train_clf", filename |-> FnTrainData,
      train_idx |-> SetToSortedSeq(S), n_epochs |-> ne, batch_size |-> bs,
      seed |-> sd, result |-> None] :
        S \in SUBSET (0..(MaxLen - 1)), ne \in 1..MaxEpochs,
        bs \in 1..MaxBatch, sd \in 0..(fact(MaxLen) - 1)}

InitFn ==
    /\ call \in FnCalls
    /\ dataset = <<>>
    /\ lang = ""
    /\ limit = None
    /\ no_mp = TRUE
    /\ pc = "unit"
    /\ flt_indices = None
    /\ urls = None
    /\ vect = None
    /\ lkf = None
    /\ done_folds = {}
    /\ evals = [i \in {} |-> None]
    /\ all_metrics = [k \in {} |-> EmptyBag]
    /\ report = None
    /\ phases = <<>>
    /\ error = ""

Pending(fn) == call.fn = fn /\ call.result = None

CallFileReader ==
    /\ Pending("file_reader")
    /\ call' = [call EXCEPT !.result =
                   Some(file_reader(call.filename, call.index_set, call.lim))]
    /\ UNCHANGED runvars

\* data = partial(data_iter, reader, flt_indices) of lines 174-181, called
\* with an index list or with none
CallData ==
    /\ Pending("data")
    /\ call' = [call EXCEPT !.result =
                   Some(data_iter(call.filename, None,
                                  IF call.only_lang # ""
                                  THEN Some(get_lang_indices(call.filename, None,
                                                             call.only_lang))
                                  ELSE None,
                                  call.index_list))]
    /\ UNCHANGED runvars

CallToDataIdx ==
    /\ Pending("to_data_idx")
    /\ call' = [call EXCEPT !.result = Some(to_data_idx(call.indices, call.urls))]
    /\ UNCHANGED runvars

CallTrainClf ==
    /\ Pending("train_clf")
    /\ call' = [call EXCEPT !.result =
                   Some(train_clf(call.filename, None, None, call.train_idx,
                                  call.n_epochs, call.batch_size, call.seed))]
    /\ UNCHANGED runvars

NextFn ==
    \/ CallFileReader
    \/ CallData
    \/ CallToDataIdx
    \/ CallTrainClf

SpecFn == InitFn /\ [][NextFn]_vars

InitAll == Init \/ InitFn

NextAll == Next \/ NextFn

SpecAll == InitAll /\ [][NextAll]_vars

-----------------------------------------------------------------------------
(* Properties *)

Domains(ids) == {get_domain(dataset[ids[k] + 1].url) : k \in 1..Len(ids)}

UrlIdx == IF urls = None THEN {} ELSE {urls[1][k][1] : k \in 1..Len(urls[1])}

\* the idx of every item that reached the vectorizer, the urls list, a test
\* set or a training batch
ReachedIdx ==
    (IF vect = None THEN {} ELSE Range(vect[1]))
    \cup UrlIdx
    \cup UNION {Range(evals[i].test.xs) : i \in DOMAIN evals}
    \cup UNION {UNION {Range(evals[i].fits[b].xs) : b \in 1..Len(evals[i].fits)} :
                    i \in DOMAIN evals}

\* the items of f a pass with the given index set, limit and language is to
\* yield: a filter over the read positions
Selected(f, index_set, lim, only_lang) ==
    LET want == SelectSeq(List([i \in 1..Len(f) |-> i - 1]),
                          LAMBDA idx :
                              /\ lim = None \/ idx < lim[1]
                              /\ index_set = None \/ idx \in index_set[1]
                              /\ f[idx + 1].status \in {200, 404}
                              /\ only_lang = "" \/ f[idx + 1].lang = only_lang)
    IN List([k \in 1..Len(want) |-> WithIdx(f[want[k] + 1], want[k])])

\* C1: in every evaluated fold, no registered domain of an item of the test
\* split (the idx to_data_idx gave for the fold's test ids) is the registered
\* domain of an item of the train split.
C1_NoLeakage ==
    \A i \in DOMAIN evals :
        Domains(evals[i].test_idx) \cap Domains(evals[i].train_idx) = {}

C1_Witness ==
    \E i \in DOMAIN evals :
        \E a, b \in Range(evals[i].test_idx) :
            /\ dataset[a + 1].url # dataset[b + 1].url
            /\ get_domain(dataset[a + 1].url) = get_domain(dataset[b + 1].url)
            /\ UrlIdx # 0..(Len(urls[1]) - 1)

\* C2: once the folds are generated there are n_folds of them, and every
\* position of the urls list is in the test split of exactly one fold.
C2_PartitionComplete ==
    lkf # None =>
        /\ Len(lkf[1]) = n_folds
        /\ \A p \in 0..(Len(urls[1]) - 1) :
              Cardinality({f \in 1..Len(lkf[1]) : p \in Range(lkf[1][f][2])}) = 1
        /\ \A f \in 1..Len(lkf[1]) :
              Range(lkf[1][f][2]) \subseteq 0..(Len(urls[1]) - 1)

C2_Witness ==
    /\ lkf # None
    /\ \E f \in 1..Len(lkf[1]) : Len(lkf[1][f][2]) >= 2

\* C3: to_data_idx(indices, urls) raises AssertionError when a requested
\* logical id is no position of urls, and otherwise returns the data idx of
\* the requested positions, one per distinct requested id, in urls order.
C3_ResolutionStrict ==
    (call.fn = "to_data_idx" /\ call.result # None) =>
        LET ids == Range(call.indices)
            r == call.result[1]
        IN IF ids \subseteq 0..(Len(call.urls) - 1)
           THEN /\ IsOk(r)
                /\ Len(r[2]) = Cardinality(ids)
                /\ r[2] = LET ps == SetToSortedSeq(ids)
                          IN List([k \in 1..Len(ps) |-> call.urls[ps[k] + 1][1]])
           ELSE r = Raise("AssertionError")

C3_Witness ==
    /\ call.fn = "to_data_idx"
    /\ call.result = Some(Raise("AssertionError"))
    /\ \E id \in Range(call.indices) : id < Len(call.urls)

\* C4: file_reader yields, in read order, exactly the items whose read
\* position is below the limit (if any), in the index set (if any) and whose
\* status is 200 or 404, each carrying its read position as idx.
C4_StreamReaderOutput ==
    (call.fn = "file_reader" /\ call.result # None) =>
        call.result[1] = Selected(call.filename, call.index_set, call.lim, "")

C4_Witness ==
    /\ call.fn = "file_reader"
    /\ call.result # None
    /\ call.lim # None
    /\ call.index_set # None
    /\ Len(call.result[1]) >= 2
    /\ \E i \in 1..Len(call.filename) : call.filename[i].status = 500
    /\ call.lim[1] < Len(call.filename)

\* C5: with a language given, every item that reaches the vectorizer, the
\* urls list, a test set or a training batch has that language, and a call
\* of the data-access function with any index list yields exactly the
\* selected items of that language; with no language the urls list and the
\* data-access function are not filtered by language.
C5_LanguageRestriction ==
    /\ (pc # "unit" /\ lang # "") =>
          \A idx \in ReachedIdx : dataset[idx + 1].lang = lang
    /\ (pc # "unit" /\ lang = "" /\ urls # None) =>
          UrlIdx = {it.idx : it \in Range(Selected(dataset, None, limit, ""))}
    /\ (call.fn = "data" /\ call.result # None) =>
          call.result[1] =
              Selected(call.filename,
                       IF call.index_list = None THEN None
                       ELSE Some(Range(call.index_list[1])),
                       None, call.only_lang)

C5_Witness ==
    /\ lang = "en"
    /\ report # None
    /\ \E i \in 1..Len(dataset) :
          dataset[i].lang # "en" /\ dataset[i].status = 200

\* C6 as stated: a non-empty training list shorter than a batch gets exactly
\* one partial_fit call.
C6_ExactlyOneUpdate ==
    (/\ call.fn = "train_clf"
     /\ call.result # None
     /\ call.train_idx # <<>>
     /\ Len(call.train_idx) < call.batch_size) =>
        Len(call.result[1]) = 1

\* C6 amended: a non-empty training list shorter than a batch gets exactly
\* one partial_fit call per epoch, n_epochs in all, each on the whole list.
C6_OneUpdatePerEpoch ==
    (/\ call.fn = "train_clf"
     /\ call.result # None
     /\ call.train_idx # <<>>
     /\ Len(call.train_idx) < call.batch_size) =>
        /\ Len(call.result[1]) = call.n_epochs
        /\ \A b \in 1..Len(call.result[1]) :
              call.result[1][b].xs = call.train_idx

C6_Witness ==
    /\ call.fn = "train_clf"
    /\ call.result # None
    /\ Len(call.train_idx) = 2
    /\ call.batch_size = 3
    /\ call.n_epochs = default_n_epochs
    /\ call.seed = 1

\* C7: the run on the 40-item scenario dataset with --no-mp ends with the
\* report, holding one F1 and one AUC value for each of 4 folds, and no
\* domain on both sides of a fold.
C7_EndToEndScenario ==
    (/\ dataset = Scenario40
     /\ no_mp
     /\ lang = "en"
     /\ limit = None
     /\ pc \in {"done", "failed"}) =>
        /\ pc = "done"
        /\ report # None
        /\ \A k \in {"F1", "AUC"} :
              k \in DOMAIN report[1] /\ BagCardinality(report[1][k]) = 4
        /\ \A i \in DOMAIN evals :
              Domains(evals[i].test_idx) \cap Domains(evals[i].train_idx) = {}

\* C8: once the evaluation of a fold has raised, the run has ended without a
\* report; and no report holds fewer values than there are folds.
C8_NoPartialReport ==
    /\ error = "fold evaluation" => (pc = "failed" /\ report = None)
    /\ report # None =>
          \A k \in DOMAIN report[1] :
              BagCardinality(report[1][k]) = Len(lkf[1])

C8_Witness ==
    /\ error = "fold evaluation"
    /\ ~no_mp
    /\ Cardinality(done_folds) >= 2

\* C9 as stated: the vocabulary is fitted before the (idx, url) list is
\* collected.
C9_FitBeforeIdentityList == urls # None => vect # None

CanonicalPhases ==
    (IF lang # "" THEN <<"language_filter">> ELSE <<>>)
    \o <<"identity_list", "vocab_fit", "fold_split", "report">>

\* C9 amended: the phases complete in the order language filter (if a
\* language is given), identity list, vocabulary fit, fold split, report,
\* none twice; no fold is evaluated before the vocabulary fit and the fold
\* split are complete, and the report follows the last fold.
C9_DriverSequencing ==
    /\ Len(phases) <= Len(CanonicalPhases)
    /\ phases = SubSeq(CanonicalPhases, 1, Len(phases))
    /\ (done_folds # {} \/ error = "fold evaluation") =>
          /\ vect # None /\ lkf # None
          /\ "fold_split" \in Range(phases)
    /\ vect # None => urls # None
    /\ "report" \in Range(phases) => done_folds = Folds

C9_Witness ==
    /\ lang # ""
    /\ phases = CanonicalPhases

\* C10: when the report is printed every fold's result has been collected,
\* and each of F1 and AUC holds exactly one value from each of the n_folds
\* folds, in parallel and in sequential mode.
C10_OrderIndependentAggregation ==
    report # None =>
        /\ done_folds = Folds
        /\ DOMAIN evals = Folds
        /\ DOMAIN report[1] = {"F1", "AUC"}
        /\ \A k \in DOMAIN report[1] :
              /\ report[1][k] = SetToBag({evals[i].metrics[k] : i \in Folds})
              /\ BagCardinality(report[1][k]) = n_folds

C10_Witness ==
    /\ report # None
    /\ ~no_mp

====
